---- MODULE Spec2Model ----
(***************************************************************************)
(* Model of the GPIRS shortage-report text parser (src/app.py).            *)
(*                                                                         *)
(* A Python str is modelled as a sequence of one-character strings, so     *)
(* that tokenize, str.isdigit, str.strip, " ".join, strptime/strftime and  *)
(* pd.to_numeric are computed character by character.  Python indices are  *)
(* 0-based; the operator At(s, k) reads s[k] the Python way.               *)
(***************************************************************************)
EXTENDS Integers, Sequences, FiniteSets, TLC

(* ------------------------------ bounds -------------------------------- *)

\* most raw lines in a document of the scan specification
MaxLines == 4
\* most raw lines in a document of the metadata specification
MaxMetaLines == 4
\* most tokens in a detail line handed to find_marker_idx on its own
MaxToks == 5
\* largest value of a two-digit date field that is enumerated
MaxField == 32

(* --------------------------- python strings --------------------------- *)

None == <<"<None>">>

EmptyStr == << >>

Digits == {"0", "1", "2", "3", "4", "5", "6", "7", "8", "9"}

DigitVal ==
  ("0" :> 0) @@ ("1" :> 1) @@ ("2" :> 2) @@ ("3" :> 3) @@ ("4" :> 4) @@
  ("5" :> 5) @@ ("6" :> 6) @@ ("7" :> 7) @@ ("8" :> 8) @@ ("9" :> 9)

DigitChr == <<"0", "1", "2", "3", "4", "5", "6", "7", "8", "9">>

\* characters str.strip() and str.split() treat as whitespace
Whitespace == {" ", "\t", "\f"}

\* whether s[k] is a valid read (k may be negative, counting from the end)
ReadOK(s, k) == -Len(s) <= k /\ k < Len(s)

\* s[k] the Python way; an invalid read raises IndexError, which the scan
\* models by leaving for "raised" before the value (here the empty string)
\* is used
At(s, k) ==
  IF ~ReadOK(s, k) THEN << >>
  ELSE IF k >= 0 THEN s[k + 1] ELSE s[Len(s) + k + 1]

\* s[a:b] with 0-based, end-exclusive bounds (clamped like a Python slice)
Slice(s, a, b) ==
  LET lo == IF a < 0 THEN 0 ELSE a
      hi == IF b > Len(s) THEN Len(s) ELSE b
  IN  IF hi <= lo THEN << >> ELSE SubSeq(s, lo + 1, hi)

\* str.isdigit(): non-empty and every character a digit
isdigit(s) == Len(s) > 0 /\ \A k \in 1..Len(s) : s[k] \in Digits

RECURSIVE LStrip(_)
LStrip(s) ==
  IF s = << >> THEN << >>
  ELSE IF Head(s) \in Whitespace THEN LStrip(Tail(s)) ELSE s

RECURSIVE RStrip(_)
RStrip(s) ==
  IF s = << >> THEN << >>
  ELSE IF s[Len(s)] \in Whitespace THEN RStrip(SubSeq(s, 1, Len(s) - 1)) ELSE s

\* str.strip()
strip(s) == RStrip(LStrip(s))

\* str.replace(old, new) for a one-character old and a new of length 0 or 1
RECURSIVE replace(_, _, _)
replace(s, old, new) ==
  IF s = << >> THEN << >>
  ELSE (IF Head(s) = old THEN new ELSE <<Head(s)>>) \o replace(Tail(s), old, new)

\* str.split(): the maximal runs of non-whitespace characters, in order
RECURSIVE SplitFrom(_, _, _)
SplitFrom(s, cur, acc) ==
  IF s = << >>
    THEN IF cur = << >> THEN acc ELSE Append(acc, cur)
    ELSE IF Head(s) \in Whitespace
           THEN SplitFrom(Tail(s), << >>, IF cur = << >> THEN acc ELSE Append(acc, cur))
           ELSE SplitFrom(Tail(s), Append(cur, Head(s)), acc)

split(s) == SplitFrom(s, << >>, << >>)

\* sep.join(parts)
RECURSIVE join(_, _)
join(sep, parts) ==
  IF parts = << >> THEN << >>
  ELSE IF Len(parts) = 1 THEN parts[1]
  ELSE parts[1] \o sep \o join(sep, Tail(parts))

(* ------------------------------ utilities ----------------------------- *)

tokenize(line) ==
  LET l == strip(replace(line, "\f", <<" ">>))
      nonempty(t) == t # << >>
  IN  SelectSeq(split(l), nonempty)

\* characters re.sub(r"[^A-Za-z0-9\-_]", "_", ...) leaves alone
SafeChars ==
  Digits \cup {"-", "_"} \cup
  {"A", "B", "C", "D", "E", "F", "G", "H", "I", "J", "K", "L", "M",
   "N", "O", "P", "Q", "R", "S", "T", "U", "V", "W", "X", "Y", "Z"} \cup
  {"a", "b", "c", "d", "e", "f", "g", "h", "i", "j", "k", "l", "m",
   "n", "o", "p", "q", "r", "s", "t", "u", "v", "w", "x", "y", "z"}

RECURSIVE Sanitize(_)
Sanitize(s) ==
  IF s = << >> THEN << >>
  ELSE <<IF Head(s) \in SafeChars THEN Head(s) ELSE "_">> \o Sanitize(Tail(s))

\* m is group(1) of the "Shipping Document No:" search, or None
extract_shipping_doc_number(m) ==
  IF m = None THEN None
  ELSE LET r == Sanitize(strip(m)) IN IF r = << >> THEN None ELSE r

(* ---------------------------- date handling --------------------------- *)

\* s.split(sep) for a one-character separator: empty fields are kept
RECURSIVE FieldsFrom(_, _, _, _)
FieldsFrom(s, sep, cur, acc) ==
  IF s = << >> THEN Append(acc, cur)
  ELSE IF Head(s) = sep
         THEN FieldsFrom(Tail(s), sep, << >>, Append(acc, cur))
         ELSE FieldsFrom(Tail(s), sep, Append(cur, Head(s)), acc)

Fields(s, sep) == FieldsFrom(s, sep, << >>, << >>)

RECURSIVE ToInt(_)
ToInt(s) ==
  IF s = << >> THEN 0 ELSE 10 * ToInt(SubSeq(s, 1, Len(s) - 1)) + DigitVal[s[Len(s)]]

Pad2(n) == <<DigitChr[((n \div 10) % 10) + 1], DigitChr[(n % 10) + 1]>>

Pad4(n) == Pad2(n \div 100) \o Pad2(n % 100)

IsLeap(y) == ((y % 4) = 0 /\ (y % 100) # 0) \/ (y % 400) = 0

DaysInMonth(y, m) ==
  IF m = 2 THEN (IF IsLeap(y) THEN 29 ELSE 28)
  ELSE IF m \in {4, 6, 9, 11} THEN 30 ELSE 31

\* what the directive %Y matches: exactly four digits
MatchesY(f) == Len(f) = 4 /\ isdigit(f)

\* what %m matches: 1[0-2] | 0[1-9] | [1-9]
MatchesM(f) == Len(f) \in {1, 2} /\ isdigit(f) /\ ToInt(f) \in 1..12

\* what %d matches: 3[01] | [12]\d | 0[1-9] | [1-9] | " "[1-9]
MatchesD(f) ==
  \/ Len(f) \in {1, 2} /\ isdigit(f) /\ ToInt(f) \in 1..31
  \/ Len(f) = 2 /\ f[1] = " " /\ f[2] \in Digits \ {"0"}

DayOf(f) == IF f[1] = " " THEN DigitVal[f[2]] ELSE ToInt(f)

\* the formats with month-first tried before day-first
Formats_MonthFirst ==
  << [sep |-> "/", y |-> 1, m |-> 2, d |-> 3],
     [sep |-> "-", y |-> 1, m |-> 2, d |-> 3],
     [sep |-> "/", y |-> 3, m |-> 1, d |-> 2],
     [sep |-> "/", y |-> 3, m |-> 2, d |-> 1] >>

\* the formats of normalize_date_str, in the order they are tried:
\* separator and the positions of year, month and day among the fields
Formats ==
  << [sep |-> "/", y |-> 1, m |-> 2, d |-> 3],
     [sep |-> "-", y |-> 1, m |-> 2, d |-> 3],
     [sep |-> "/", y |-> 3, m |-> 2, d |-> 1],
     [sep |-> "/", y |-> 3, m |-> 1, d |-> 2] >>

\* datetime.strptime(s, fmt).strftime("%Y-%m-%d"), None for ValueError
\* (years below 1000, whose %Y output depends on the C library, are not
\* enumerated by any specification below)
StrpStrf(s, fmt) ==
  LET f == Fields(s, fmt.sep)
  IN  IF Len(f) # 3 THEN None
      ELSE IF ~(MatchesY(f[fmt.y]) /\ MatchesM(f[fmt.m]) /\ MatchesD(f[fmt.d])) THEN None
      ELSE LET yy == ToInt(f[fmt.y])
               mm == ToInt(f[fmt.m])
               dd == DayOf(f[fmt.d])
           IN  IF yy < 1 \/ dd > DaysInMonth(yy, mm) THEN None
               ELSE Pad4(yy) \o <<"-">> \o Pad2(mm) \o <<"-">> \o Pad2(dd)

RECURSIVE TryFormats(_, _)
TryFormats(s, fmts) ==
  IF fmts = << >> THEN None
  ELSE LET r == StrpStrf(s, Head(fmts))
       IN  IF r # None THEN r ELSE TryFormats(s, Tail(fmts))

normalize_date_str(s) == TryFormats(strip(s), Formats)

\* the fallback chain with the two labels consulted in the opposite order
extract_CreatedFirst(rec, created, today) ==
  LET d1 == IF rec # None THEN normalize_date_str(rec) ELSE None
      d2 == IF created # None THEN normalize_date_str(created) ELSE None
  IN  IF d2 # None THEN d2
      ELSE IF d1 # None THEN d1
      ELSE today

\* rec and created are group(1) of the two label searches, or None;
\* today is date.today().strftime("%Y-%m-%d")
extract_received_or_created_date(rec, created, today) ==
  LET d1 == IF rec # None THEN normalize_date_str(rec) ELSE None
      d2 == IF created # None THEN normalize_date_str(created) ELSE None
  IN  IF d1 # None THEN d1
      ELSE IF d2 # None THEN d2
      ELSE today

(* ---------------------------- marker locator -------------------------- *)

tokI == <<"I">>

tokS == <<"S">>

tokV == <<"V">>

NoMarker == -1

\* list.index(tok): 0-based index of the first occurrence
index(parts, tok) ==
  (CHOOSE k \in 1..Len(parts) :
     parts[k] = tok /\ \A j \in 1..(k - 1) : parts[j] # tok) - 1

\* the body of the for loop for one candidate; NoMarker when it falls through
MarkerFor(parts2, tok) ==
  IF \E k \in 1..Len(parts2) : parts2[k] = tok
    THEN LET idx == index(parts2, tok)
         IN  IF idx + 1 < Len(parts2) /\ At(parts2, idx + 1) = tokV
               THEN idx ELSE NoMarker
    ELSE NoMarker

find_marker_idx(parts2) ==
  IF MarkerFor(parts2, tokI) # NoMarker THEN MarkerFor(parts2, tokI)
  ELSE MarkerFor(parts2, tokS)

(* ------------------------------- inputs ------------------------------- *)

\* raw "  12 AB 1234 C 10 EA 5.00 50.00 ": a well-formed header, padded
HeaderLine ==
  <<" ", " ", "1", "2", " ", "A", "B", " ", "1", "2", "3", "4", " ", "C",
    " ", "1", "0", " ", "E", "A", " ", "5", ".", "0", "0", " ", "5", "0",
    ".", "0", "0", " ">>

\* its cleaned form
HeaderClean ==
  <<"1", "2", " ", "A", "B", " ", "1", "2", "3", "4", " ", "C", " ", "1",
    "0", " ", "E", "A", " ", "5", ".", "0", "0", " ", "5", "0", ".", "0",
    "0">>

\* "T987 Widget kit I V TAMS1 . X": a detail whose ticket is not all digits
DetailT987 ==
  <<"T", "9", "8", "7", " ", "W", "i", "d", "g", "e", "t", " ", "k", "i",
    "t", " ", "I", " ", "V", " ", "T", "A", "M", "S", "1", " ", ".", " ",
    "X">>

\* "987 Widget kit I V TAMS1 . X": a well-formed detail (eight tokens)
Detail987 ==
  <<"9", "8", "7", " ", "W", "i", "d", "g", "e", "t", " ", "k", "i", "t",
    " ", "I", " ", "V", " ", "T", "A", "M", "S", "1", " ", ".", " ", "X">>

\* "9 I V T1 .": marker at index 1, only a placeholder after TAMS
DetailBare ==
  <<"9", " ", "I", " ", "V", " ", "T", "1", " ", ".">>

\* "44 one I two S V": an I inside the description, marker S, nothing after V
DetailSV ==
  <<"4", "4", " ", "o", "n", "e", " ", "I", " ", "t", "w", "o", " ", "S",
    " ", "V">>

\* "13 I V": digit-led, three tokens
ShortLine ==
  <<"1", "3", " ", "I", " ", "V">>

\* "14 CD<tab>77  E nut 2 BX 1.5 x": nine tokens, a total price that is no number
LongHeader ==
  <<"1", "4", " ", "C", "D", "\t", "7", "7", " ", " ", "E", " ", "n", "u",
    "t", " ", "2", " ", "B", "X", " ", "1", ".", "5", " ", "x">>

\* a line of whitespace only
BlankLine ==
  <<" ", "\t", " ">>

\* group(1) of "Shipping Document No: AB/12-34"
ShipGroup ==
  <<"A", "B", "/", "1", "2", "-", "3", "4">>

\* the run date
Today ==
  <<"2", "0", "2", "6", "-", "1", "1", "-", "0", "1">>

\* an operator-supplied date
OverrideValue ==
  <<"2", "0", "2", "5", "-", "0", "1", "-", "3", "1">>

\* "2024/03/05": year first, slashes
Date_YSlash ==
  <<"2", "0", "2", "4", "/", "0", "3", "/", "0", "5">>

\* "05/03/2024": year last: read day first
Date_DSlash ==
  <<"0", "5", "/", "0", "3", "/", "2", "0", "2", "4">>

\* "2024/03-05": matches the label pattern but no format
Date_Mixed ==
  <<"2", "0", "2", "4", "/", "0", "3", "-", "0", "5">>

\* "2024-02-30": no such day
Date_Feb30 ==
  <<"2", "0", "2", "4", "-", "0", "2", "-", "3", "0">>

\* "2023-12-31": year first, dashes
Date_YDash ==
  <<"2", "0", "2", "3", "-", "1", "2", "-", "3", "1">>

\* "12/25/2023": year last, only month-first is a date
Date_MSlash ==
  <<"1", "2", "/", "2", "5", "/", "2", "0", "2", "3">>

\* "31/31/2023": year last, no reading is a date
Date_Bad ==
  <<"3", "1", "/", "3", "1", "/", "2", "0", "2", "3">>

LinePool ==
  {HeaderLine, DetailT987, Detail987, DetailBare, DetailSV, ShortLine,
   LongHeader, BlankLine}

MetaLinePool == {HeaderLine, Detail987, DetailT987}

RecGroups == {None, Date_YSlash, Date_DSlash, Date_Mixed, Date_Feb30}

CreatedGroups == {None, Date_YDash, Date_MSlash, Date_Bad}

SeqsUpTo(S, n) == UNION {[1..k -> S] : k \in 0..n}

(* ------------------------------- state -------------------------------- *)

VARIABLES
  raw_lines,      \* txt_content.splitlines()
  ship,           \* group(1) of the "Shipping Document No:" search, or None
  rec,            \* group(1) of the "Received Date:" search, or None
  created,        \* group(1) of the "Date Created:" search, or None
  today,          \* date.today() as YYYY-MM-DD
  override_date,  \* the override_date argument, or None
  cleaned_lines,
  doc_no,
  date_rcvd,
  entries,
  i,
  df,             \* the returned frame: its columns and its rows
  pc,             \* "idle", "start", "scan", "raised", "done"
  hdrs,           \* for each entry, the cursor at which it was emitted
  marks,          \* for each entry, the marker index it was cut at
  iters,          \* loop iterations executed so far
  parts_in,       \* argument of a stand-alone find_marker_idx call
  marker_out,     \* its result
  date_in,        \* argument of a stand-alone normalize_date_str call
  date_as,        \* the form and the date that argument was written from
  date_out,       \* its result
  fpc             \* stand-alone calls: "off", "ready", "called"

vars ==
  <<raw_lines, ship, rec, created, today, override_date, cleaned_lines,
    doc_no, date_rcvd, entries, i, df, pc, hdrs, marks, iters,
    parts_in, marker_out, date_in, date_as, date_out, fpc>>

fnVars == <<parts_in, marker_out, date_in, date_as, date_out, fpc>>

inputVars == <<raw_lines, ship, rec, created, today, override_date>>

scanVars ==
  <<raw_lines, ship, rec, created, today, override_date, cleaned_lines,
    doc_no, date_rcvd, entries, i, df, pc, hdrs, marks, iters>>

EmptyFrame == [columns |-> << >>, rows |-> << >>]

(* ------------------------------ parsing ------------------------------- *)

\* [ln.strip().replace("\x0c", "") for ln in raw_lines if ln.strip()]
CleanLines(raw) ==
  LET kept(ln) == strip(ln) # << >>
      kl == SelectSeq(raw, kept)
  IN  [k \in 1..Len(kl) |-> replace(strip(kl[k]), "\f", << >>)]

\* override_date or extract_received_or_created_date(txt_content)
ChooseDate(ovr, r, c, t) ==
  IF ovr # None /\ ovr # EmptyStr THEN ovr
  ELSE extract_received_or_created_date(r, c, t)

\* the loop condition
LoopCond(cur, n) == cur < n - 1

\* the header test without the digit check
IsHeaderCandidate_AnyToken(first_tokens) == first_tokens # << >>

\* first_tokens and first_tokens[0].isdigit()
IsHeaderCandidate(first_tokens) ==
  first_tokens # << >> /\ isdigit(At(first_tokens, 0))

MinDetailTokens == 5

\* a header threshold below the number of header tokens the entry reads
MinHeaderTokens_Low == MinDetailTokens - 2

MinHeaderTokens == 8

\* the pair test without the digit check on the ticket
PairOK_AnyTicket(parts1, parts2) ==
  /\ Len(parts1) >= MinHeaderTokens
  /\ Len(parts2) >= MinDetailTokens

\* len(parts1) >= 8 and len(parts2) >= 5 and parts2[0].isdigit()
PairOK(parts1, parts2) ==
  /\ Len(parts1) >= MinHeaderTokens
  /\ Len(parts2) >= MinDetailTokens
  /\ isdigit(At(parts2, 0))

Description(parts2, marker_idx) == join(<<" ">>, Slice(parts2, 1, marker_idx))

\* TAMS taken right after the marker instead of after its "V"
TamsIdx_AfterMarker(marker_idx) == marker_idx + 1

TamsIdx(marker_idx) == marker_idx + 2

Tams(parts2, marker_idx) ==
  IF TamsIdx(marker_idx) < Len(parts2)
    THEN At(parts2, TamsIdx(marker_idx)) ELSE EmptyStr

AdditionalInfo(parts2, marker_idx) ==
  LET notdot(t) == t # <<".">>
      tail == SelectSeq(Slice(parts2, TamsIdx(marker_idx) + 1, Len(parts2)), notdot)
  IN  IF tail # << >> THEN tail[Len(tail)] ELSE EmptyStr

\* the keys of the entry dict, in the order the literal lists them
EntryKeys ==
  <<"Line", "Date Rcvd", "Part Prefix", "Part Base", "Part Suffix",
    "Description", "Quantity", "UOM", "Unit Price ($)", "Total Price",
    "TAMS", "Ticket Number", "Additional Info", "Source Doc">>

MakeEntry(parts1, parts2, marker_idx, date, doc) ==
  ("Line" :> At(parts1, 0)) @@
  ("Date Rcvd" :> date) @@
  ("Part Prefix" :> At(parts1, 1)) @@
  ("Part Base" :> At(parts1, 2)) @@
  ("Part Suffix" :> At(parts1, 3)) @@
  ("Description" :> Description(parts2, marker_idx)) @@
  ("Quantity" :> At(parts1, -4)) @@
  ("UOM" :> At(parts1, -3)) @@
  ("Unit Price ($)" :> At(parts1, -2)) @@
  ("Total Price" :> At(parts1, -1)) @@
  ("TAMS" :> Tams(parts2, marker_idx)) @@
  ("Ticket Number" :> At(parts2, 0)) @@
  ("Additional Info" :> AdditionalInfo(parts2, marker_idx)) @@
  ("Source Doc" :> IF doc # None THEN doc ELSE EmptyStr)

\* the index reads of building the entry: parts1[0..3], parts1[-4..-1], parts2[0]
EntryReadsOK(parts1, parts2) ==
  /\ \A k \in {0, 1, 2, 3, -4, -3, -2, -1} : ReadOK(parts1, k)
  /\ ReadOK(parts2, 0)

\* pd.to_numeric(..., errors="coerce") on one token, for the unsigned decimal
\* notations digits, digits.digits, digits. and .digits with at most two
\* fractional digits; the value is kept in hundredths.  Every other token of
\* the inputs above is no number and becomes NaN.
NaN == <<"NaN">>

Number(hundredths) == <<"num", hundredths>>

ToNumeric(tok) ==
  LET f == Fields(tok, ".")
      digitsOrEmpty(x) == \A k \in 1..Len(x) : x[k] \in Digits
      frac(x) == IF Len(x) = 1 THEN 10 * ToInt(x) ELSE ToInt(x)
  IN  IF Len(f) = 1 /\ isdigit(f[1]) THEN Number(100 * ToInt(f[1]))
      ELSE IF /\ Len(f) = 2
              /\ digitsOrEmpty(f[1]) /\ digitsOrEmpty(f[2])
              /\ Len(f[1]) + Len(f[2]) > 0
              /\ Len(f[2]) <= 2
             THEN Number(100 * ToInt(f[1]) + frac(f[2]))
      ELSE NaN

NumericKeys == {"Quantity", "Unit Price ($)", "Total Price"}

Coerce(entry) ==
  [k \in DOMAIN entry |-> IF k \in NumericKeys THEN ToNumeric(entry[k]) ELSE entry[k]]

\* list.remove(x): drops the first occurrence
Remove(cols, x) ==
  LET at == CHOOSE k \in 1..Len(cols) : cols[k] = x /\ \A j \in 1..(k - 1) : cols[j] # x
  IN  SubSeq(cols, 1, at - 1) \o SubSeq(cols, at + 1, Len(cols))

\* the columns left in the order of the entry literal
ReorderColumns_Keep(cols) == cols

ReorderColumns(cols) ==
  Append(Append(Remove(Remove(cols, "Additional Info"), "Ticket Number"),
                "Ticket Number"), "Additional Info")

\* pd.DataFrame(entries) and the block under "if not df.empty"
BuildFrame(ents) ==
  IF ents = << >> THEN EmptyFrame
  ELSE [columns |-> ReorderColumns(EntryKeys),
        rows |-> [k \in 1..Len(ents) |-> Coerce(ents[k])]]

(* ------------------------------ actions ------------------------------- *)

first_tokens == tokenize(At(cleaned_lines, i))

parts2 == tokenize(At(cleaned_lines, i + 1))

\* if i + 1 < len(cleaned_lines)
HasNext == i + 1 < Len(cleaned_lines)

\* the pair at the cursor passes every test up to and including the marker
Accepts ==
  /\ IsHeaderCandidate(first_tokens)
  /\ HasNext
  /\ PairOK(first_tokens, parts2)
  /\ find_marker_idx(parts2) # NoMarker

\* the iteration at the cursor performs an index read that is out of range
IterRaises ==
  \/ ~ReadOK(cleaned_lines, i)
  \/ /\ IsHeaderCandidate(first_tokens) /\ HasNext
     /\ Len(first_tokens) >= MinHeaderTokens /\ Len(parts2) >= MinDetailTokens
     /\ ~ReadOK(parts2, 0)
  \/ Accepts /\ ~EntryReadsOK(first_tokens, parts2)

Raise ==
  /\ pc' = "raised"
  /\ UNCHANGED <<cleaned_lines, doc_no, date_rcvd, entries, i, df, hdrs, marks>>

SkipStep == 1

\* a rejected pair that is skipped together with its neighbour
RejectStep_Two == SkipStep + 1

RejectStep == 1

\* an accepted pair that moves the cursor past the header only
AcceptStep_One == RejectStep

AcceptStep == 2

\* lines 62-69: clean the lines, take the metadata, start the cursor
ParseStart ==
  /\ pc = "start"
  /\ cleaned_lines' = CleanLines(raw_lines)
  /\ doc_no' = extract_shipping_doc_number(ship)
  /\ date_rcvd' = ChooseDate(override_date, rec, created, today)
  /\ entries' = << >>
  /\ i' = 0
  /\ pc' = "scan"
  /\ UNCHANGED <<inputVars, df, hdrs, marks, iters, fnVars>>

\* an iteration whose line is no header candidate (the outer else)
SkipLine ==
  /\ pc = "scan"
  /\ LoopCond(i, Len(cleaned_lines))
  /\ ~IsHeaderCandidate(first_tokens)
  /\ iters' = iters + 1
  /\ IF IterRaises THEN Raise
     ELSE /\ i' = i + SkipStep
          /\ UNCHANGED <<cleaned_lines, doc_no, date_rcvd, entries, df, pc, hdrs, marks>>
  /\ UNCHANGED <<inputVars, fnVars>>

\* an iteration on a header candidate whose pair is not accepted
RejectPair ==
  /\ pc = "scan"
  /\ LoopCond(i, Len(cleaned_lines))
  /\ IsHeaderCandidate(first_tokens)
  /\ ~Accepts
  /\ iters' = iters + 1
  /\ IF IterRaises THEN Raise
     ELSE /\ i' = i + RejectStep
          /\ UNCHANGED <<cleaned_lines, doc_no, date_rcvd, entries, df, pc, hdrs, marks>>
  /\ UNCHANGED <<inputVars, fnVars>>

\* an iteration that emits a record
AcceptPair ==
  /\ pc = "scan"
  /\ LoopCond(i, Len(cleaned_lines))
  /\ Accepts
  /\ iters' = iters + 1
  /\ IF IterRaises THEN Raise
     ELSE LET marker_idx == find_marker_idx(parts2)
          IN  /\ entries' = Append(entries,
                   MakeEntry(first_tokens, parts2, marker_idx, date_rcvd, doc_no))
              /\ hdrs' = Append(hdrs, i)
              /\ marks' = Append(marks, marker_idx)
              /\ i' = i + AcceptStep
              /\ UNCHANGED <<cleaned_lines, doc_no, date_rcvd, df, pc>>
  /\ UNCHANGED <<inputVars, fnVars>>

\* lines 117-134: the loop has ended; build, coerce and reorder the frame
Assemble ==
  /\ pc = "scan"
  /\ ~LoopCond(i, Len(cleaned_lines))
  /\ df' = BuildFrame(entries)
  /\ pc' = "done"
  /\ UNCHANGED <<inputVars, cleaned_lines, doc_no, date_rcvd, entries, i,
                 hdrs, marks, iters, fnVars>>

\* a stand-alone call of find_marker_idx
CallFindMarker ==
  /\ fpc = "ready"
  /\ marker_out' = find_marker_idx(parts_in)
  /\ fpc' = "called"
  /\ UNCHANGED <<scanVars, parts_in, date_in, date_as, date_out>>

\* a stand-alone call of normalize_date_str
CallNormalize ==
  /\ fpc = "ready"
  /\ date_out' = normalize_date_str(date_in)
  /\ fpc' = "called"
  /\ UNCHANGED <<scanVars, parts_in, marker_out, date_in, date_as>>

(* --------------------------- specifications --------------------------- *)

ScanStart ==
  /\ cleaned_lines = << >>
  /\ doc_no = None
  /\ date_rcvd = None
  /\ entries = << >>
  /\ i = 0
  /\ df = EmptyFrame
  /\ hdrs = << >>
  /\ marks = << >>
  /\ iters = 0

FnOff ==
  /\ parts_in = << >>
  /\ marker_out = NoMarker
  /\ date_in = << >>
  /\ date_as = [form |-> "none", y |-> 0, m |-> 0, d |-> 0]
  /\ date_out = None

\* the scan over documents drawn from LinePool, metadata fixed
Init ==
  /\ raw_lines \in SeqsUpTo(LinePool, MaxLines)
  /\ ship = ShipGroup
  /\ rec = None
  /\ created = None
  /\ today = Today
  /\ override_date = None
  /\ pc = "start"
  /\ ScanStart
  /\ FnOff
  /\ fpc = "off"

Next == ParseStart \/ SkipLine \/ RejectPair \/ AcceptPair \/ Assemble

Spec == Init /\ [][Next]_vars

\* the same parser over short documents, every metadata case enumerated
InitMeta ==
  /\ raw_lines \in SeqsUpTo(MetaLinePool, MaxMetaLines)
  /\ ship = None
  /\ rec \in RecGroups
  /\ created \in CreatedGroups
  /\ today = Today
  /\ override_date \in {None, OverrideValue}
  /\ pc = "start"
  /\ ScanStart
  /\ FnOff
  /\ fpc = "off"

SpecMeta == InitMeta /\ [][Next]_vars

ScanIdle ==
  /\ raw_lines = << >>
  /\ ship = None
  /\ rec = None
  /\ created = None
  /\ today = Today
  /\ override_date = None
  /\ pc = "idle"
  /\ ScanStart

MarkerTokens == {tokI, tokS, tokV, <<"x">>}

InitMarker ==
  /\ ScanIdle
  /\ parts_in \in SeqsUpTo(MarkerTokens, MaxToks)
  /\ marker_out = NoMarker
  /\ date_in = << >>
  /\ date_as = [form |-> "none", y |-> 0, m |-> 0, d |-> 0]
  /\ date_out = None
  /\ fpc = "ready"

NextMarker == CallFindMarker

SpecMarker == InitMarker /\ [][NextMarker]_vars

\* the four accepted forms
DateForms == {"Y/M/D", "Y-M-D", "D/M/Y", "M/D/Y"}

Years == {2023, 2024}

Months == 0..13

Render(form, y, m, d) ==
  IF form = "Y/M/D" THEN Pad4(y) \o <<"/">> \o Pad2(m) \o <<"/">> \o Pad2(d)
  ELSE IF form = "Y-M-D" THEN Pad4(y) \o <<"-">> \o Pad2(m) \o <<"-">> \o Pad2(d)
  ELSE IF form = "D/M/Y" THEN Pad2(d) \o <<"/">> \o Pad2(m) \o <<"/">> \o Pad4(y)
  ELSE Pad2(m) \o <<"/">> \o Pad2(d) \o <<"/">> \o Pad4(y)

InitDate ==
  /\ ScanIdle
  /\ parts_in = << >>
  /\ marker_out = NoMarker
  /\ date_as \in [form : DateForms, y : Years, m : Months, d : 0..MaxField]
  /\ date_in = Render(date_as.form, date_as.y, date_as.m, date_as.d)
  /\ date_out = None
  /\ fpc = "ready"

NextDate == CallNormalize

SpecDate == InitDate /\ [][NextDate]_vars

(* ------------------------------- claims ------------------------------- *)

\* tokens of the line at 0-based index k
TokensOf(lines, k) == tokenize(lines[k + 1])

TokensAt(k) == TokensOf(cleaned_lines, k)

\* 0-based positions of an "I" or "S" that is immediately followed by "V"
Qualifying(parts) ==
  {k \in 0..(Len(parts) - 2) :
     parts[k + 1] \in {tokI, tokS} /\ parts[k + 2] = tokV}

SetMin(S) == CHOOSE x \in S : \A y \in S : x <= y

SetMax(S) == CHOOSE x \in S : \A y \in S : x >= y

\* the record scenario 1 lists, with the given ticket number
Scenario1Row(row, ticket) ==
  /\ row["Line"] = <<"1", "2">>
  /\ row["Part Prefix"] = <<"A", "B">>
  /\ row["Part Base"] = <<"1", "2", "3", "4">>
  /\ row["Part Suffix"] = <<"C">>
  /\ row["Quantity"] = Number(100 * 10)
  /\ row["UOM"] = <<"E", "A">>
  /\ row["Unit Price ($)"] = Number(100 * 5)
  /\ row["Total Price"] = Number(100 * 50)
  /\ row["Description"] = <<"W", "i", "d", "g", "e", "t", " ", "k", "i", "t">>
  /\ row["TAMS"] = <<"T", "A", "M", "S", "1">>
  /\ row["Ticket Number"] = ticket
  /\ row["Additional Info"] = <<"X">>

\* C1 as stated: the header "12 AB 1234 C 10 EA 5.00 50.00" followed by the
\* detail "T987 Widget kit I V TAMS1 . X" yields exactly one record, with
\* ticket number "T987" and the listed fields.
C1_Original ==
  (pc = "done" /\ cleaned_lines = <<HeaderClean, DetailT987>>)
    => (Len(df.rows) = 1 /\ Scenario1Row(df.rows[1], <<"T", "9", "8", "7">>))

\* C1 amended: with the detail "987 Widget kit I V TAMS1 . X" the document
\* yields exactly one record with the listed fields and ticket number "987";
\* with the detail "T987 ...", whose first token is not all digits, it yields
\* no record.
C1_Scenario ==
  pc = "done" =>
    /\ cleaned_lines = <<HeaderClean, Detail987>>
         => (Len(df.rows) = 1 /\ Scenario1Row(df.rows[1], <<"9", "8", "7">>))
    /\ cleaned_lines = <<HeaderClean, DetailT987>> => df.rows = << >>

C1_Witness ==
  /\ pc = "done"
  /\ cleaned_lines = <<HeaderClean, Detail987>>
  /\ Len(df.rows) = 1
  /\ df.rows[1]["Ticket Number"] = <<"9", "8", "7">>

\* C2 as stated: whenever a document yields a record, the columns of the
\* returned frame are the fourteen of section 6 in that order, Source Doc last.
C2_Original ==
  (pc = "done" /\ entries # << >>) =>
    df.columns =
      <<"Line", "Date Rcvd", "Part Prefix", "Part Base", "Part Suffix",
        "Description", "Quantity", "UOM", "Unit Price ($)", "Total Price",
        "TAMS", "Ticket Number", "Additional Info", "Source Doc">>

\* C2 amended: whenever a document yields a record, the columns are the same
\* fourteen with Source Doc after TAMS, Ticket Number second from last and
\* Additional Info last.
C2_ColumnOrder ==
  (pc = "done" /\ entries # << >>) =>
    df.columns =
      <<"Line", "Date Rcvd", "Part Prefix", "Part Base", "Part Suffix",
        "Description", "Quantity", "UOM", "Unit Price ($)", "Total Price",
        "TAMS", "Source Doc", "Ticket Number", "Additional Info">>

C2_Witness ==
  pc = "done" /\ Len(entries) = 2 /\ Len(df.columns) = 14

\* C3: find_marker_idx returns the index of the first token that is "I" or
\* "S" and is immediately followed by "V", and no marker only when there is
\* no such token.
C3_FirstQualifying ==
  fpc = "called" =>
    marker_out = IF Qualifying(parts_in) = {} THEN NoMarker
                 ELSE SetMin(Qualifying(parts_in))

\* a line's first token is not purely digits
NonDigitLedIn(lines, k) ==
  LET t == TokensOf(lines, k) IN t = << >> \/ ~isdigit(t[1])

NonDigitLed(k) == NonDigitLedIn(cleaned_lines, k)

\* C4: a cleaned line whose first token is not purely digits is neither the
\* header nor the detail line of an emitted record, and an iteration with the
\* cursor on such a line moves the cursor by exactly one and emits nothing.
C4_NonDigitSkipped ==
  [][ /\ (pc = "scan" /\ i < Len(cleaned_lines) - 1 /\ NonDigitLed(i))
         => (i' = i + 1 /\ entries' = entries /\ pc' = "scan")
      /\ \A k \in 1..Len(hdrs') :
           /\ ~NonDigitLedIn(cleaned_lines', hdrs'[k])
           /\ ~NonDigitLedIn(cleaned_lines', hdrs'[k] + 1)
           /\ entries'[k]["Line"] = TokensOf(cleaned_lines', hdrs'[k])[1]
           /\ entries'[k]["Ticket Number"] = TokensOf(cleaned_lines', hdrs'[k] + 1)[1]
    ]_vars

\* a non-digit line was skipped at index 0, the pair at 1 and 2 was accepted
C4_Witness ==
  /\ pc = "done"
  /\ Len(cleaned_lines) = 4
  /\ i = 3
  /\ iters = 2
  /\ NonDigitLed(0)
  /\ NonDigitLed(3)
  /\ hdrs = <<1>>

\* the pair at the cursor fails an acceptance condition, read off the lines
PairFails ==
  LET p1 == TokensAt(i)
      p2 == TokensAt(i + 1)
  IN  \/ Len(p1) < 8
      \/ Len(p2) < 5
      \/ ~isdigit(p2[1])
      \/ Qualifying(p2) = {}

\* C5: an iteration with the cursor on a digit-led line whose pair fails an
\* acceptance condition emits no record and moves the cursor by exactly one,
\* the scan going on from the following line.
C5_RejectAdvancesOne ==
  [][ (pc = "scan" /\ i < Len(cleaned_lines) - 1 /\ ~NonDigitLed(i) /\ PairFails)
        => (entries' = entries /\ i' = i + 1 /\ pc' = "scan") ]_vars

\* after one iteration on header/header: the first pair failed for want of a
\* marker alone, and the second header is the line under the cursor
C5_Witness ==
  /\ pc = "scan"
  /\ iters = 1
  /\ i = 1
  /\ entries = << >>
  /\ Len(cleaned_lines) >= 3
  /\ Len(TokensAt(0)) >= 8
  /\ Len(TokensAt(1)) >= 5
  /\ isdigit(TokensAt(1)[1])
  /\ Qualifying(TokensAt(1)) = {}

ValidDate(y, m, d) == m \in 1..12 /\ d \in 1..DaysInMonth(y, m)

Iso(y, m, d) == Pad4(y) \o <<"-">> \o Pad2(m) \o <<"-">> \o Pad2(d)

\* C6 as stated: every valid date written in any of the four forms is mapped
\* to the YYYY-MM-DD string of the date that form denotes.
C6_Original ==
  (fpc = "called" /\ ValidDate(date_as.y, date_as.m, date_as.d))
    => date_out = Iso(date_as.y, date_as.m, date_as.d)

\* C6 amended: the two year-first forms and DD/MM/YYYY are mapped to the date
\* they denote; a date written MM/DD/YYYY is mapped to the date it denotes
\* only when its day is above 12, and otherwise the text is read day-first
\* (its month taken as the day and its day as the month).
C6_Normalize ==
  (fpc = "called" /\ ValidDate(date_as.y, date_as.m, date_as.d)) =>
    IF date_as.form = "M/D/Y" /\ date_as.d <= 12
      THEN date_out = Iso(date_as.y, date_as.d, date_as.m)
      ELSE date_out = Iso(date_as.y, date_as.m, date_as.d)

C6_Witness ==
  /\ fpc = "called"
  /\ date_as = [form |-> "M/D/Y", y |-> 2024, m |-> 3, d |-> 5]
  /\ date_out = <<"2", "0", "2", "4", "-", "0", "5", "-", "0", "3">>

Parseable(g) == g # None /\ normalize_date_str(g) # None

\* C7: without an override the document date is the normalized Received Date
\* value when that is present and parseable, else the normalized Date Created
\* value when that is present and parseable, else the run date; it is the
\* Date Rcvd of every record of the document.
C7_DatePriority ==
  (pc \in {"scan", "done"} /\ override_date = None) =>
    /\ Parseable(rec) => date_rcvd = normalize_date_str(rec)
    /\ (~Parseable(rec) /\ Parseable(created))
         => date_rcvd = normalize_date_str(created)
    /\ (~Parseable(rec) /\ ~Parseable(created)) => date_rcvd = today
    /\ \A k \in 1..Len(entries) : entries[k]["Date Rcvd"] = date_rcvd
    /\ \A k \in 1..Len(df.rows) : df.rows[k]["Date Rcvd"] = date_rcvd

C7_Witness ==
  /\ pc = "done"
  /\ override_date = None
  /\ rec = Date_DSlash
  /\ created = Date_MSlash
  /\ Len(df.rows) = 2
  /\ date_rcvd = <<"2", "0", "2", "4", "-", "0", "3", "-", "0", "5">>

\* C8: the scan terminates without an error: an iteration is executed only
\* while the cursor is below length-1 and moves the cursor by one or two, so
\* there are never more than length-1 iterations; the loop is left with the
\* cursor at or past length-1; and no iteration reads a line index or a token
\* index that is out of range.
C8_Terminates ==
  /\ [](pc # "raised")
  /\ [](iters <= i /\ i <= Len(cleaned_lines))
  /\ [](iters <= IF Len(cleaned_lines) = 0 THEN 0 ELSE Len(cleaned_lines) - 1)
  /\ [](pc = "done" => i >= Len(cleaned_lines) - 1)
  /\ [][iters' # iters =>
          /\ iters' = iters + 1
          /\ i < Len(cleaned_lines) - 1
          /\ i' - i \in {1, 2}]_vars

\* a document of the longest length scanned in the most iterations it allows
C8_Witness ==
  /\ pc = "done"
  /\ Len(cleaned_lines) = MaxLines
  /\ iters = Len(cleaned_lines) - 1
  /\ entries # << >>

\* C9: an accepted pair with marker index m gives Description = detail tokens
\* 1..m-1 space-joined, TAMS = detail[m+2] or empty, Additional Info = the
\* last token of detail[m+3..] that is not "." or empty, Ticket Number =
\* detail[0], and Quantity, UOM, Unit Price, Total Price = the last four
\* header tokens in that order.
C9_Fields ==
  \A k \in 1..Len(entries) :
    LET p1 == TokensAt(hdrs[k])
        p2 == TokensAt(hdrs[k] + 1)
        m == marks[k]
        n1 == Len(p1)
        n2 == Len(p2)
        rest == {j \in (m + 3)..(n2 - 1) : p2[j + 1] # <<".">>}
        e == entries[k]
    IN  /\ m \in Qualifying(p2)
        /\ e["Description"] = join(<<" ">>, [j \in 1..(m - 1) |-> p2[j + 1]])
        /\ e["TAMS"] = IF m + 2 < n2 THEN p2[m + 3] ELSE << >>
        /\ e["Additional Info"] = IF rest = {} THEN << >> ELSE p2[SetMax(rest) + 1]
        /\ e["Ticket Number"] = p2[1]
        /\ e["Quantity"] = p1[n1 - 3]
        /\ e["UOM"] = p1[n1 - 2]
        /\ e["Unit Price ($)"] = p1[n1 - 1]
        /\ e["Total Price"] = p1[n1]

\* a nine-token header, then a detail with the marker at index 1 and only a
\* placeholder behind TAMS, then a detail with nothing behind "V"
C9_Witness ==
  /\ pc = "done"
  /\ Len(entries) = 2
  /\ marks = <<1, 4>>
  /\ Len(TokensAt(0)) = 9
  /\ entries[1]["Description"] = << >>
  /\ entries[1]["Additional Info"] = << >>
  /\ entries[2]["TAMS"] = << >>
  /\ entries[2]["Description"] = <<"o", "n", "e", " ", "I", " ", "t", "w", "o">>

\* C10: every cleaned line is used by at most one record, a record's detail
\* is the line right after its header, records come in increasing header
\* order, the cursor is past the detail of every record, the last line is
\* never a header, and there are at most floor(lines / 2) records.
C10_LinesUsedOnce ==
  /\ Len(hdrs) = Len(entries)
  /\ \A k \in 1..Len(hdrs) :
       /\ hdrs[k] >= 0
       /\ hdrs[k] + 1 <= Len(cleaned_lines) - 1
       /\ i >= hdrs[k] + 2
       /\ entries[k]["Line"] = TokensAt(hdrs[k])[1]
       /\ entries[k]["Ticket Number"] = TokensAt(hdrs[k] + 1)[1]
       /\ \A j \in 1..(k - 1) : hdrs[j] + 2 <= hdrs[k]
  /\ 2 * Len(entries) <= Len(cleaned_lines)

\* three copies of a line that is both a well-formed header and a well-formed
\* detail: one record, not two
C10_Witness ==
  /\ pc = "done"
  /\ cleaned_lines = <<Detail987, Detail987, Detail987>>
  /\ hdrs = <<0>>

====
